---- MODULE Spec2Model ----
(***************************************************************************)
(* A model of zfit's parameters (zfit/core/parameter.py), of its wrapped    *)
(* tensorflow-probability distributions and Gaussian kernel density        *)
(* estimate (zfit/models/dist_tfp.py), and of the FFT convolution pdf as   *)
(* tests/test_pdf_fftconv.py constructs and samples it.                    *)
(*                                                                         *)
(* Real numbers are modelled by integers.  Step sizes are counted in units *)
(* of 1e-4, so that 0.001 is 10 and 0.0001 is 1.  np.infty and np.nan are  *)
(* integers outside the range of every finite value of the model.          *)
(***************************************************************************)
EXTENDS Integers, Sequences, FiniteSets, TLC

VARIABLES
    store,        \* the parameter objects constructed so far, in order of construction
    collection,   \* tf.get_collection("zfit_independent"): indices into store
    result,       \* what the last call returned or raised
    wrap,         \* a WrapDistribution instance and the values of its parameters
    conv          \* an FFTConvV1 instance

vars == <<store, collection, result, wrap, conv>>

\* no parameter constructed
NoParameters ==
    /\ store = <<>>
    /\ collection = <<>>

\* no convolution model constructed
NoConv == [cls |-> "", n |-> 0, interpolation |-> "", spline_order |-> 0]

---------------------------------------------------------------------------
(* Bounds of the model *)

MaxParams == 2       \* parameter objects constructed in one run
MaxX == 2            \* the finite limits of a pdf's axis lie in 0..MaxX
MaxN == 2            \* samples asked for in one call
MaxAxes == 2         \* axes of the limits handed to a pdf
MaxAccesses == 2     \* reads of WrapDistribution.distribution in one run
MaxData == 2         \* data points handed to a kernel density estimate
MaxWeight == 2       \* a weight of a data point lies in 1..MaxWeight
RecursionLimit == 3  \* nested constructor calls Python allows before RecursionError
FiniteLimit == 1     \* the finite limits tried are -FiniteLimit and FiniteLimit
ExplicitStep == 5    \* the explicit step size tried (0.0005)
MaxOrder == 12       \* the spline orders tried are 1..MaxOrder

---------------------------------------------------------------------------
(* Python values *)

Infty == 1000        \* np.infty
NaN == 2000          \* np.nan

NoneVal == [isNone |-> TRUE, v |-> 0]
Num(x) == [isNone |-> FALSE, v |-> x]

\* IEEE comparison `a == b`: false as soon as one side is NaN
PyEq(a, b) == IF a = NaN \/ b = NaN THEN FALSE ELSE a = b

\* ztf.to_real: a cast to the real dtype, which keeps the number
to_real(x) == x

\* a value handed to a setter, with its Python type
PyBool(b) == [type |-> "bool", val |-> b]
PyOther(t) == [type |-> t, val |-> FALSE]
FloatingInputs == {PyBool(TRUE), PyBool(FALSE), PyOther("int")}

Returned(op, target, v) ==
    [op |-> op, target |-> target, status |-> "return", error |-> "", value |-> v]
Raised(op, target, e) ==
    [op |-> op, target |-> target, status |-> "raise", error |-> e, value |-> 0]
NoCall == [op |-> "", target |-> 0, status |-> "", error |-> "", value |-> 0]

\* the name given to the k-th parameter constructed
NameOf(k) == <<"a", "b", "c", "d">>[k]
LowerLimits == {NoneVal, Num(-FiniteLimit)}
UpperLimits == {NoneVal, Num(FiniteLimit)}
StepSizes == {NoneVal, Num(ExplicitStep)}
InitValues == {0}                      \* the initial value of every parameter tried
MinVals == {NoneVal, Num(0)}           \* the minval handed to randomise
MaxVals == {NoneVal, Num(FiniteLimit)} \* the maxval handed to randomise

---------------------------------------------------------------------------
(* BaseParameter *)

\* BaseParameter.floating (getter)
FloatingGetUnchecked(p) == [status |-> "return", error |-> "", value |-> p.floating]

floating_get(p) ==
    IF p.floating /\ ~p.trainable
    THEN [status |-> "raise", error |-> "RuntimeError", value |-> FALSE]
    ELSE [status |-> "return", error |-> "", value |-> p.floating]

\* a setter that stores whatever it is given
FloatingSetUnchecked(p, value) ==
    [status |-> "return", error |-> "", obj |-> [p EXCEPT !.floating = value.val]]

\* BaseParameter.floating (setter): the object after the assignment, or the error
floating_set(p, value) ==
    IF value.type # "bool"
    THEN [status |-> "raise", error |-> "TypeError", obj |-> p]
    ELSE [status |-> "return", error |-> "", obj |-> [p EXCEPT !.floating = value.val]]

---------------------------------------------------------------------------
(* Parameter *)

DefaultStepSize == 10     \* step_size = 0.001
SmallStepSize == 1        \* step_size = 0.0001

\* Parameter.step_size (getter)
step_size_get(p) ==
    IF p.step_size.isNone
    THEN LET step_size == DefaultStepSize
         IN  IF PyEq(step_size, NaN)
             THEN IF p.lower_limit = -Infty \/ p.upper_limit = Infty
                  THEN [status |-> "return", error |-> "",
                        value |-> to_real(SmallStepSize)]
                  ELSE [status |-> "raise", error |-> "ValueError", value |-> 0]
             ELSE [status |-> "return", error |-> "", value |-> to_real(step_size)]
    ELSE [status |-> "return", error |-> "", value |-> to_real(p.step_size.v)]

\* the object Parameter.__init__ leaves behind (floating already checked to be a bool)
ParameterObject(name, init_value, floating, lower_limit, upper_limit, step_size) ==
    [kind |-> "Parameter", name |-> name, independent |-> TRUE,
     trainable |-> TRUE, floating |-> floating, value |-> init_value,
     step_size |-> step_size,
     lower_limit |-> IF lower_limit.isNone THEN -Infty ELSE lower_limit.v,
     upper_limit |-> IF upper_limit.isNone THEN Infty ELSE upper_limit.v]

\* the object BaseParameter.__init__ leaves behind; trainable comes with **kwargs
BaseParameterObject(name, initial_value, floating, trainable) ==
    [kind |-> "BaseParameter", name |-> name, independent |-> FALSE,
     trainable |-> trainable, floating |-> floating, value |-> initial_value,
     step_size |-> NoneVal, lower_limit |-> -Infty, upper_limit |-> Infty]

\* ztf.random_uniform(shape, minval, maxval): in a graph this is an operation, a
\* tf.Tensor that draws anew whenever a session evaluates it, and no number
ztf_random_uniform(minval, maxval) ==
    [type |-> "Tensor", op |-> "random_uniform", minval |-> minval, maxval |-> maxval]

\* tf.Variable.load(value, session): the value is fed to the session, and a
\* session takes no tf.Tensor as the value of a feed
load(p, value) ==
    IF value.type = "Tensor"
    THEN [status |-> "raise", error |-> "TypeError", obj |-> p]
    ELSE [status |-> "return", error |-> "", obj |-> [p EXCEPT !.value = value.v]]

\* Parameter.randomise(sess, minval, maxval): the parameter after the call and
\* the value returned, or the error
randomise(p, minval, maxval) ==
    LET lo     == IF minval.isNone THEN p.lower_limit ELSE minval.v
        hi     == IF maxval.isNone THEN p.upper_limit ELSE maxval.v
        value  == ztf_random_uniform(lo, hi)
        loaded == load(p, value)
    IN  IF loaded.status = "raise"
        THEN [status |-> "raise", error |-> loaded.error, obj |-> p, value |-> 0]
        ELSE [status |-> "return", error |-> "", obj |-> loaded.obj, value |-> value]

---------------------------------------------------------------------------
(* convert_to_parameter *)

\* a value handed to convert_to_parameter, with its Python type: a tf.Variable
\* (the parameter store[at]), a tf.Tensor, a complex or a float
PyVariable(at) == [type |-> "Variable", at |-> at, v |-> 0]
PyTensor(v) == [type |-> "Tensor", at |-> 0, v |-> v]
PyComplex(v) == [type |-> "complex", at |-> 0, v |-> v]
PyFloat(v) == [type |-> "float", at |-> 0, v |-> v]

\* the values handed to convert_to_parameter when st holds the parameters
Convertibles(st) ==
    {PyVariable(at) : at \in 1..Len(st)}
        \cup UNION {{PyTensor(v), PyComplex(v), PyFloat(v)} : v \in InitValues}

\* Parameter("FIXED_autoparam", init_value=value) followed by floating = False
AutoParameter(value, st, coll) ==
    LET new == ParameterObject("FIXED_autoparam", value, TRUE, NoneVal, NoneVal, NoneVal)
        set == floating_set(new, PyBool(FALSE))
    IN  [status |-> set.status, error |-> set.error, at |-> Len(st) + 1,
         store |-> Append(st, set.obj), collection |-> Append(coll, Len(st) + 1)]

\* convert_to_parameter without the test for a tf.Variable
ConvertAlwaysNew(value, st, coll) ==
    IF value.type = "complex"
    THEN [status |-> "raise", error |-> "ValueError", at |-> 0,
          store |-> st, collection |-> coll]
    ELSE AutoParameter(IF value.type = "Variable" THEN st[value.at].value
                       ELSE to_real(value.v), st, coll)

\* convert_to_parameter(value): the store index of the parameter returned, with
\* the parameters and the collection after the call, or the error
convert_to_parameter(value, st, coll) ==
    IF value.type = "Variable"
    THEN [status |-> "return", error |-> "", at |-> value.at,
          store |-> st, collection |-> coll]
    ELSE IF value.type # "Tensor"
         THEN IF value.type = "complex"
              THEN [status |-> "raise", error |-> "ValueError", at |-> 0,
                    store |-> st, collection |-> coll]
              ELSE AutoParameter(to_real(value.v), st, coll)
         ELSE AutoParameter(value.v, st, coll)

---------------------------------------------------------------------------
(* ComposedParameter *)

\* tf.gradients(tensor, xs): one entry per x, None where the tensor has no
\* gradient path to x.  A tensor is modelled by the set of store indices it was
\* computed from.
gradients(tensor, xs) ==
    [k \in 1..Len(xs) |->
        IF xs[k] \in tensor THEN [isNone |-> FALSE, v |-> xs[k]] ELSE NoneVal]

\* the builtin filter called as filter(function, iterable=...): the builtin takes
\* no keyword arguments
filter_kw(seq) == [status |-> "raise", error |-> "TypeError", value |-> {}]

\* ComposedParameter.__init__: the `parameters` mapping (as the set of its keys'
\* store indices) or the error
ComposedParameterInit(tensor, coll) ==
    LET dependent_vars == gradients(tensor, coll)
        params == filter_kw(dependent_vars)
    IN  IF params.status = "raise"
        THEN [status |-> "raise", error |-> params.error, value |-> {}]
        ELSE [status |-> "return", error |-> "", value |-> params.value]

---------------------------------------------------------------------------
(* WrapDistribution over tfp.distributions.Uniform *)

\* The wrapped distribution is Uniform(low, high) with low < high.  A probability
\* is counted in units of 1 / (high - low): cdf and quantile are then exact on
\* the integers.

IsFinite(x) == x # Infty /\ x # -Infty /\ x # NaN

Clamp(x, lo, hi) == IF x < lo THEN lo ELSE IF x > hi THEN hi ELSE x

\* tfp Uniform(low, high).cdf(x)
cdf(dist, x) == Clamp(x - dist.low, 0, dist.high - dist.low)

\* tfp Uniform(low, high).quantile(p)
quantile(dist, p) == dist.low + p

\* tfp Uniform(low, high).prob(x), in units of 1 / (high - low)
prob(dist, x) == IF dist.low <= x /\ x < dist.high THEN 1 ELSE 0

\* the values a pdf's parameters low and high can take
ParamValues == {[low |-> 0, high |-> 1], [low |-> 0, high |-> 2], [low |-> 1, high |-> 2]}

Suppliers == {"mapping", "factory"}

callable(supplier) == supplier = "factory"

NoDist == [low |-> 0, high |-> 0]

\* no pdf constructed
NoWrap == [dist_params |-> "", dist_kwargs |-> "", values |-> NoDist,
           accesses |-> 0, invocations |-> 0, built |-> NoDist, previous |-> NoDist]

\* WrapDistribution.__init__
WrapInit(dist_params, dist_kwargs, values) ==
    [dist_params |-> dist_params, dist_kwargs |-> dist_kwargs, values |-> values,
     accesses |-> 0, invocations |-> 0, built |-> NoDist, previous |-> NoDist]

\* WrapDistribution.distribution, were the distribution object kept from the
\* first access on
DistributionKept(w) ==
    IF w.accesses > 0
    THEN [dist |-> w.built, invoked |-> 0]
    ELSE [dist |-> w.values,
          invoked |-> (IF callable(w.dist_params) THEN 1 ELSE 0)
                      + (IF callable(w.dist_kwargs) THEN 1 ELSE 0)]

\* WrapDistribution.distribution: the distribution object built by one access
\* and the number of factory invocations the access made.  A mapping holds the
\* parameters themselves and a factory reads them: both hand the distribution
\* the values the parameters have when it is built.
distribution(w) ==
    LET params == w.values
        invoked_params == IF callable(w.dist_params) THEN 1 ELSE 0
        invoked_kwargs == IF callable(w.dist_kwargs) THEN 1 ELSE 0
    IN  [dist |-> params, invoked |-> invoked_params + invoked_kwargs]

\* the pdf after `times` accesses to its distribution property, each of which
\* built `dist`: `built` is the distribution object of the last access and
\* `previous` that of the access before it
Accessed(w, times, invoked, dist) ==
    [w EXCEPT !.accesses = @ + times, !.invocations = @ + invoked, !.built = dist,
              !.previous = IF times > 1 THEN dist ELSE w.built]

\* limits: one (lower, upper) pair per axis
Bounds == (0..MaxX) \cup {-Infty, Infty}
AxisLimits == {l \in [lower : Bounds, upper : Bounds] : l.lower < l.upper}
\* on more than one axis, every axis is all finite or all infinite
WideAxisLimits == {[lower |-> 0, upper |-> MaxX], [lower |-> -Infty, upper |-> Infty]}
Limits == [1..1 -> AxisLimits] \cup UNION {[1..n -> WideAxisLimits] : n \in 2..MaxAxes}

\* WrapDistribution._analytic_integrate without the assertion on the limits
AnalyticIntegrateUnasserted(w, limits) ==
    LET upper_dist == distribution(w).dist
        lower_dist == distribution(w).dist
    IN  [status |-> "return", error |-> "",
         value |-> [k \in 1..Len(limits) |->
                       cdf(upper_dist, limits[k].upper) - cdf(lower_dist, limits[k].lower)],
         dist |-> lower_dist]

\* WrapDistribution._analytic_integrate: the integral on each axis, in units of
\* 1 / (high - low), or the error of tf.debugging.assert_all_finite
_analytic_integrate(w, limits) ==
    IF \E k \in 1..Len(limits) : ~IsFinite(limits[k].lower) \/ ~IsFinite(limits[k].upper)
    THEN [status |-> "raise", error |-> "InvalidArgumentError",
          value |-> <<>>, dist |-> NoDist]
    ELSE LET upper_dist == distribution(w).dist
             lower_dist == distribution(w).dist
         IN  [status |-> "return", error |-> "",
              value |-> [k \in 1..Len(limits) |->
                            cdf(upper_dist, limits[k].upper)
                            - cdf(lower_dist, limits[k].lower)],
              dist |-> lower_dist]

\* the entries z.random.uniform can draw between minval and maxval: those of
\* [minval, maxval), and minval itself where the two are equal
UniformEntries(minval, maxval) ==
    IF minval < maxval THEN minval..(maxval - 1) ELSE {minval}

\* the number of columns of z.random.uniform(shape=(n, 1), minval, maxval) with
\* minval and maxval of shape (1, axes): the two shapes broadcast
BroadcastColumns(columns, axes) == IF columns = 1 THEN axes ELSE columns

\* every draw of z.random.uniform(shape=(n, 1), minval, maxval)
random_uniform(n, minval, maxval) ==
    LET columns == BroadcastColumns(1, Len(minval))
        Entries == UNION {UniformEntries(minval[j], maxval[j]) : j \in 1..columns}
        Rows == {row \in [1..columns -> Entries] :
                    \A j \in 1..columns : row[j] \in UniformEntries(minval[j], maxval[j])}
    IN  [1..n -> Rows]

ShapeError(dist) ==
    [status |-> "raise", error |-> "ValueError", value |-> <<>>, probs |-> <<>>,
     dist |-> dist]

\* tfd_analytic_sample: every outcome the call can have.  Tensor.set_shape
\* raises where the number of columns it is given differs from the tensor's.
tfd_analytic_sample(n, dist, limits) ==
    LET n_obs == Len(limits)
        lower_prob_lim == [j \in 1..n_obs |-> cdf(dist, limits[j].lower)]
        upper_prob_lim == [j \in 1..n_obs |-> cdf(dist, limits[j].upper)]
        columns == BroadcastColumns(1, Len(lower_prob_lim))
    IN  IF columns # 1
        THEN {ShapeError(dist)}
        ELSE { LET sample == [i \in 1..n |-> [j \in 1..columns |->
                                                quantile(dist, prob_sample[i][j])]]
               IN  IF columns # n_obs
                   THEN ShapeError(dist)
                   ELSE [status |-> "return", error |-> "", value |-> sample,
                         probs |-> prob_sample, dist |-> dist]
             : prob_sample \in random_uniform(n, lower_prob_lim, upper_prob_lim) }

\* WrapDistribution._analytic_sample
_analytic_sample(w, n, limits) == tfd_analytic_sample(n, distribution(w).dist, limits)

---------------------------------------------------------------------------
(* Operations on a WrapDistribution *)

InitWrap ==
    /\ NoParameters
    /\ result = NoCall
    /\ \E dist_params \in Suppliers, dist_kwargs \in Suppliers, values \in ParamValues :
           wrap = WrapInit(dist_params, dist_kwargs, values)
    /\ conv = NoConv

\* a parameter of the pdf is assigned a new value, as a fit does
SetValue ==
    \E values \in ParamValues :
        /\ values # wrap.values
        /\ wrap' = [wrap EXCEPT !.values = values]
        /\ result' = Returned("set_value", 0, 0)
        /\ UNCHANGED <<store, collection, conv>>

\* pdf._unnormalized_pdf(x)
UnnormalizedPdf ==
    \E x \in 0..MaxX :
        LET got == distribution(wrap)
        IN  /\ wrap.accesses + 1 <= MaxAccesses
            /\ wrap' = Accessed(wrap, 1, got.invoked, got.dist)
            /\ result' = [op |-> "pdf", target |-> 0, status |-> "return", error |-> "",
                          value |-> prob(got.dist, x), dist |-> got.dist]
            /\ UNCHANGED <<store, collection, conv>>

\* pdf._analytic_integrate(limits, norm_range)
AnalyticIntegrate ==
    \E limits \in Limits :
        LET got == _analytic_integrate(wrap, limits)
            times == IF got.status = "raise" THEN 0 ELSE 2
        IN  /\ wrap.accesses + times <= MaxAccesses
            /\ wrap' = IF got.status = "raise" THEN wrap
                       ELSE Accessed(wrap, 2, 2 * distribution(wrap).invoked, got.dist)
            /\ result' = [op |-> "integrate", target |-> 0, status |-> got.status,
                          error |-> got.error,
                          value |-> [limits |-> limits, integral |-> got.value],
                          dist |-> got.dist]
            /\ UNCHANGED <<store, collection, conv>>

\* pdf._analytic_sample(n, limits)
AnalyticSample ==
    \E n \in 1..MaxN, limits \in Limits :
        \E got \in _analytic_sample(wrap, n, limits) :
            /\ wrap.accesses + 1 <= MaxAccesses
            /\ wrap' = Accessed(wrap, 1, distribution(wrap).invoked, got.dist)
            /\ result' = [op |-> "sample", target |-> 0, status |-> got.status,
                          error |-> got.error,
                          value |-> [n |-> n, limits |-> limits, sample |-> got.value,
                                     probs |-> got.probs],
                          dist |-> got.dist]
            /\ UNCHANGED <<store, collection, conv>>

NextWrap ==
    \/ SetValue
    \/ UnnormalizedPdf
    \/ AnalyticIntegrate
    \/ AnalyticSample

SpecWrap == InitWrap /\ [][NextWrap]_vars

---------------------------------------------------------------------------
(* Operations on parameters *)

InitParameter ==
    /\ NoParameters
    /\ result = NoCall
    /\ wrap = NoWrap
    /\ conv = NoConv

\* Parameter(name, init_value, lower_limit, upper_limit, step_size, floating)
NewParameter ==
    /\ Len(store) < MaxParams
    /\ \E floating \in FloatingInputs, init_value \in InitValues,
          lo \in LowerLimits, up \in UpperLimits, step \in StepSizes :
         LET new == ParameterObject(NameOf(Len(store) + 1), init_value, TRUE,
                                    lo, up, step)
             set == floating_set(new, floating)
             at  == Len(store) + 1
         IN  \* the variable is registered (line 84) before floating is assigned (line 86)
             /\ UNCHANGED <<wrap, conv>>
             /\ collection' = Append(collection, at)
             /\ IF set.status = "raise"
                THEN /\ store' = Append(store, new)
                     /\ result' = [op |-> "Parameter", target |-> at,
                                   status |-> "raise", error |-> set.error,
                                   value |-> floating]
                ELSE /\ store' = Append(store, set.obj)
                     /\ result' = [op |-> "Parameter", target |-> at,
                                   status |-> "return", error |-> "",
                                   value |-> floating]

\* a BaseParameter subclass constructed with floating and trainable
NewBaseParameter ==
    /\ Len(store) < MaxParams
    /\ \E floating \in FloatingInputs, initial_value \in InitValues,
          trainable \in BOOLEAN :
         LET new == BaseParameterObject(NameOf(Len(store) + 1), initial_value,
                                        TRUE, trainable)
             set == floating_set(new, floating)
             at  == Len(store) + 1
         IN  /\ UNCHANGED <<collection, wrap, conv>>
             /\ IF set.status = "raise"
                THEN \* no flag was stored and the caller gets no object
                     /\ store' = store
                     /\ result' = [op |-> "BaseParameter", target |-> 0,
                                   status |-> "raise", error |-> set.error,
                                   value |-> floating]
                ELSE /\ store' = Append(store, set.obj)
                     /\ result' = [op |-> "BaseParameter", target |-> at,
                                   status |-> "return", error |-> "",
                                   value |-> floating]

\* reading p.floating
ReadFloating ==
    \E i \in 1..Len(store) :
        LET got == floating_get(store[i])
        IN  /\ result' = [op |-> "floating", target |-> i, status |-> got.status,
                          error |-> got.error, value |-> got.value]
            /\ UNCHANGED <<store, collection, wrap, conv>>

\* p.floating = value
SetFloating ==
    \E i \in 1..Len(store), value \in FloatingInputs :
        LET set == floating_set(store[i], value)
        IN  /\ store' = [store EXCEPT ![i] = set.obj]
            /\ result' = [op |-> "floating=", target |-> i, status |-> set.status,
                          error |-> set.error, value |-> value]
            /\ UNCHANGED <<collection, wrap, conv>>

\* reading p.step_size
ReadStepSize ==
    \E i \in 1..Len(store) :
        /\ store[i].kind = "Parameter"
        /\ LET got == step_size_get(store[i])
           IN  result' = [op |-> "step_size", target |-> i, status |-> got.status,
                          error |-> got.error, value |-> got.value]
        /\ UNCHANGED <<store, collection, wrap, conv>>

\* p.step_size = value
SetStepSize ==
    \E i \in 1..Len(store), value \in StepSizes :
        /\ store[i].kind = "Parameter"
        /\ store' = [store EXCEPT ![i].step_size = value]
        /\ result' = Returned("step_size=", i, 0)
        /\ UNCHANGED <<collection, wrap, conv>>

\* p.randomise(sess, minval, maxval)
Randomise ==
    \E i \in 1..Len(store), minval \in MinVals, maxval \in MaxVals :
        /\ store[i].kind = "Parameter"
        /\ LET got == randomise(store[i], minval, maxval)
           IN  /\ store' = [store EXCEPT ![i] = got.obj]
               /\ result' = [op |-> "randomise", target |-> i, status |-> got.status,
                             error |-> got.error, value |-> got.value]
        /\ UNCHANGED <<collection, wrap, conv>>

\* convert_to_parameter(value)
ConvertToParameter ==
    \E value \in Convertibles(store) :
        LET made == convert_to_parameter(value, store, collection)
        IN  /\ Len(made.store) <= MaxParams
            /\ store' = made.store
            /\ collection' = made.collection
            /\ result' = [op |-> "convert_to_parameter", target |-> made.at,
                          status |-> made.status, error |-> made.error,
                          value |-> value]
            /\ UNCHANGED <<wrap, conv>>

\* ComposedParameter(name, tensor)
NewComposedParameter ==
    \E tensor \in SUBSET (1..Len(store)) :
        LET made == ComposedParameterInit(tensor, collection)
        IN  /\ result' = [op |-> "ComposedParameter", target |-> 0,
                          status |-> made.status, error |-> made.error,
                          value |-> [deps |-> tensor, parameters |-> made.value]]
            /\ UNCHANGED <<store, collection, wrap, conv>>

NextParameter ==
    \/ NewParameter
    \/ NewBaseParameter
    \/ ReadFloating
    \/ SetFloating
    \/ ReadStepSize
    \/ SetStepSize
    \/ NewComposedParameter

SpecParameter == InitParameter /\ [][NextParameter]_vars

\* constructing, fixing, randomising and converting parameters
NextConversion ==
    \/ NewParameter
    \/ NewBaseParameter
    \/ SetFloating
    \/ Randomise
    \/ ConvertToParameter

SpecConversion == InitParameter /\ [][NextConversion]_vars

---------------------------------------------------------------------------
(* GaussianKDE1DimExactV1 *)

NoWeights == [isNone |-> TRUE, w |-> <<>>]
Weights(w) == [isNone |-> FALSE, w |-> w]

\* the bandwidth argument, with its Python type
BandwidthNone == [type |-> "NoneType", s |-> "", v |-> 0]
BandwidthStr(s) == [type |-> "str", s |-> s, v |-> 0]
BandwidthFloat(v) == [type |-> "float", s |-> "", v |-> v]

\* a bandwidth as the estimator holds it: a number, or what a rule of
\* zfit.models.kde made of the data (`length` is 0 for a scalar)
NumericBandwidth(v) ==
    [rule |-> "numeric", value |-> v, length |-> 0, base |-> "", func |-> <<>>]

\* kde.bandwidth_silverman(data): a scalar
bandwidth_silverman(data) ==
    [rule |-> "silverman", value |-> 0, length |-> 0, base |-> "", func |-> <<>>]

\* kde.bandwidth_scott(data): a scalar
bandwidth_scott(data) ==
    [rule |-> "scott", value |-> 0, length |-> 0, base |-> "", func |-> <<>>]

\* kde.bandwidth_adaptiveV1(data, bandwidth, func): one bandwidth per data
\* point, from the provisional bandwidth and the provisional estimate's pdf
bandwidth_adaptiveV1(data, bandwidth, func) ==
    [rule |-> "adaptiveV1", value |-> 0, length |-> Len(data), base |-> bandwidth.rule,
     func |-> func]

AdaptiveParam == -999

RECURSIVE Sum(_)
Sum(seq) == IF seq = <<>> THEN 0 ELSE Head(seq) + Sum(Tail(seq))

Failed(error, events, built) ==
    [status |-> "raise", error |-> error, events |-> events, built |-> built]

\* lines 188-195, were explicit weights to take precedence over the dataset's
ResolveWeightsExplicitFirst(data, weights) ==
    [status |-> "return", error |-> "",
     weights |-> IF ~weights.isNone THEN weights
                 ELSE IF data.zfit THEN data.weights ELSE weights]

\* lines 188-195: the weights of the estimate, or the error
ResolveWeights(data, weights) ==
    IF data.zfit
    THEN IF ~data.weights.isNone
         THEN IF ~weights.isNone
              THEN [status |-> "raise", error |-> "OverdefinedError", weights |-> weights]
              ELSE [status |-> "return", error |-> "", weights |-> data.weights]
         ELSE [status |-> "return", error |-> "", weights |-> weights]
    ELSE [status |-> "return", error |-> "", weights |-> weights]

\* z.unstack_x(data) of a one-dimensional dataset: its points
unstack_x(data) == data.values

\* lines 197-203, were the weights handed to the mixture as they are
ProbsUnnormalized(data, weights) ==
    IF ~weights.isNone
    THEN [k \in 1..Len(weights.w) |-> [num |-> weights.w[k], den |-> 1]]
    ELSE [k \in 1..Len(data) |-> [num |-> 1, den |-> Len(data)]]

\* lines 197-203: the priors of the mixture components, as fractions num / den
Probs(data, weights) ==
    LET size == Len(data)
    IN  IF ~weights.isNone
        THEN [k \in 1..Len(weights.w) |-> [num |-> weights.w[k], den |-> Sum(weights.w)]]
        ELSE [k \in 1..size |-> [num |-> 1, den |-> size]]

\* lines 186-187 and 206-219, were a string that names no method to fall back
\* to Silverman's rule
BandwidthMethodLenient(bandwidth) ==
    IF bandwidth.type = "float" THEN "numeric"
    ELSE IF bandwidth.type = "str" /\ bandwidth.s \in {"scott", "adaptiveV1"}
         THEN bandwidth.s
         ELSE "silverman"

\* lines 186-187 and 206-219: the branch the bandwidth argument selects
BandwidthMethod(bandwidth) ==
    LET given == IF bandwidth.type = "NoneType" THEN BandwidthStr("silverman")
                 ELSE bandwidth
    IN  IF given.type = "str"
        THEN IF given.s = "silverman" THEN "silverman"
             ELSE IF given.s = "scott" THEN "scott"
             ELSE IF given.s = "adaptiveV1" THEN "adaptiveV1"
             ELSE "ValueError"
        ELSE "numeric"

\* lines 213-214, were the provisional estimate built with the outer policy
InternalArgumentsSamePolicy(data, weights, name) ==
    [data |-> [zfit |-> FALSE, values |-> data, weights |-> NoWeights],
     bandwidth |-> BandwidthStr("adaptiveV1"), weights |-> weights,
     name |-> <<"INTERNAL">> \o name]

\* lines 213-214: the arguments of the provisional estimate
InternalArguments(data, weights, name) ==
    [data |-> [zfit |-> FALSE, values |-> data, weights |-> NoWeights],
     bandwidth |-> BandwidthStr("silverman"), weights |-> weights,
     name |-> <<"INTERNAL">> \o name]

\* GaussianKDE1DimExactV1.__init__, called `depth` constructor calls deep: the
\* steps taken (`events`), every estimate built (`built`, the innermost first)
\* and either the error or the new estimate (the last of `built`)
RECURSIVE GaussianKDE1DimExactV1(_, _, _, _, _)
GaussianKDE1DimExactV1(data_arg, bandwidth_arg, weights_arg, name, depth) ==
    IF depth > RecursionLimit THEN Failed("RecursionError", <<>>, <<>>)
    ELSE
    LET resolved == ResolveWeights(data_arg, weights_arg)
    IN  IF resolved.status = "raise" THEN Failed(resolved.error, <<>>, <<>>)
        ELSE
        LET weights == resolved.weights
            data == IF data_arg.zfit THEN unstack_x(data_arg) ELSE data_arg.values
            probs == Probs(data, weights)
            method == BandwidthMethod(bandwidth_arg)
            inner == InternalArguments(data, weights, name)
            kde_silverman ==
                IF method = "adaptiveV1"
                THEN GaussianKDE1DimExactV1(inner.data, inner.bandwidth, inner.weights,
                                            inner.name, depth + 1)
                ELSE Failed("", <<>>, <<>>)
            provisional == kde_silverman.built[Len(kde_silverman.built)]
            bandwidth ==
                CASE method = "silverman" -> bandwidth_silverman(data)
                  [] method = "scott" -> bandwidth_scott(data)
                  [] method = "adaptiveV1" ->
                         bandwidth_adaptiveV1(data, provisional.bandwidth, provisional.name)
                  [] OTHER -> NumericBandwidth(bandwidth_arg.v)
            bandwidth_param ==
                IF method = "adaptiveV1" THEN NumericBandwidth(AdaptiveParam) ELSE bandwidth
            self == [name |-> name, method |-> method, depth |-> depth, data |-> data,
                     data_weights |-> weights, probs |-> probs,
                     params |-> bandwidth_param, bandwidth |-> bandwidth]
        IN  IF method = "ValueError"
            THEN Failed("ValueError", <<"Categorical">>, <<>>)
            ELSE IF method = "adaptiveV1" /\ kde_silverman.status = "raise"
            THEN Failed(kde_silverman.error, <<"Categorical">> \o kde_silverman.events,
                        kde_silverman.built)
            ELSE [status |-> "return", error |-> "",
                  events |-> <<"Categorical">>
                             \o (IF method = "adaptiveV1"
                                 THEN kde_silverman.events \o <<"bandwidth_adaptiveV1">>
                                 ELSE IF method = "numeric" THEN <<>>
                                 ELSE <<"bandwidth_" \o method>>)
                             \o <<"WrapDistribution.__init__">>,
                  built |-> (IF method = "adaptiveV1" THEN kde_silverman.built ELSE <<>>)
                            \o <<self>>]

---------------------------------------------------------------------------
(* Constructing a GaussianKDE1DimExactV1 *)

PointValues == {0, 1}
WeightsFor(n) == {Weights(w) : w \in [1..n -> 1..MaxWeight]}
Datasets ==
    UNION {{[zfit |-> zfit, values |-> values, weights |-> weights] :
               zfit \in BOOLEAN, values \in [1..n -> PointValues],
               weights \in WeightsFor(n) \cup {NoWeights}}
           : n \in 1..MaxData}
\* a plain tensor carries no weights
DataArguments == {d \in Datasets : ~d.zfit => d.weights.isNone}
BandwidthArguments ==
    {BandwidthNone, BandwidthFloat(1), BandwidthStr("silverman"), BandwidthStr("scott"),
     BandwidthStr("adaptiveV1"), BandwidthStr("adaptive"), BandwidthStr("isj")}

InitKDE ==
    /\ NoParameters
    /\ wrap = NoWrap
    /\ conv = NoConv
    /\ result = NoCall

\* GaussianKDE1DimExactV1(obs, data, bandwidth, weights), once in a run
NewGaussianKDE ==
    /\ result = NoCall
    /\ \E data \in DataArguments, bandwidth \in BandwidthArguments :
         \E weights \in WeightsFor(Len(data.values)) \cup {NoWeights} :
           LET made == GaussianKDE1DimExactV1(data, bandwidth, weights,
                                              <<"GaussianKDE1DimV1">>, 0)
           IN  result' = [op |-> "GaussianKDE1DimExactV1", target |-> 0,
                          status |-> made.status, error |-> made.error,
                          value |-> [data |-> data, bandwidth |-> bandwidth,
                                     weights |-> weights, events |-> made.events,
                                     built |-> made.built]]
    /\ UNCHANGED <<store, collection, wrap, conv>>

NextKDE == NewGaussianKDE

SpecKDE == InitKDE /\ [][NextKDE]_vars

---------------------------------------------------------------------------
(* FFTConvV1 (zfit.pdf.FFTConvV1) and the subclass of tests/test_pdf_fftconv.py *)

\* An interpolation specification is a Python string, modelled by the sequence
\* of its characters.
Linear == <<"l", "i", "n", "e", "a", "r">>
Spline == <<"s", "p", "l", "i", "n", "e">>
DigitChars == <<"0", "1", "2", "3", "4", "5", "6", "7", "8", "9">>

\* str(k) for a natural number k
RECURSIVE Str(_)
Str(k) ==
    IF k < 10 THEN <<DigitChars[k + 1]>>
    ELSE Append(Str(k \div 10), DigitChars[(k % 10) + 1])

\* the string `spline:<order>` for a string order
SplineWith(order) == Spline \o <<":">> \o order

\* the interpolations test_conv_simple is parametrized with
TestedInterpolations == {Linear, Spline, SplineWith(<<"5">>), SplineWith(<<"3">>)}

\* orders that are no positive integer
MalformedOrders == {<<>>, <<"x">>, <<"0">>, <<"-", "1">>, <<"3", "x">>}

Interpolations ==
    TestedInterpolations
        \cup {SplineWith(Str(k)) : k \in 1..MaxOrder}
        \cup {SplineWith(order) : order \in MalformedOrders}

\* the index of the first ":" of s, or 0
FirstColon(s) ==
    IF \E k \in 1..Len(s) : s[k] = ":"
    THEN CHOOSE k \in 1..Len(s) : s[k] = ":" /\ \A j \in 1..(k - 1) : s[j] # ":"
    ELSE 0

IsDigit(c) == \E d \in 1..10 : DigitChars[d] = c
DigitValue(c) == (CHOOSE d \in 1..10 : DigitChars[d] = c) - 1

\* the number a string of decimal digits denotes
RECURSIVE int(_)
int(digits) ==
    IF digits = <<>> THEN 0
    ELSE 10 * int(SubSeq(digits, 1, Len(digits) - 1)) + DigitValue(digits[Len(digits)])

\* an order that is no positive integer is taken to be the default order
ParseOrderLenient(order) ==
    IF order # <<>> /\ (\A k \in 1..Len(order) : IsDigit(order[k])) /\ int(order) > 0
    THEN [status |-> "return", error |-> "", value |-> int(order)]
    ELSE [status |-> "return", error |-> "", value |-> 3]

\* the order k of `spline:<k>`: a positive integer, or the error
ParseOrder(order) ==
    IF order # <<>> /\ (\A k \in 1..Len(order) : IsDigit(order[k])) /\ int(order) > 0
    THEN [status |-> "return", error |-> "", value |-> int(order)]
    ELSE [status |-> "raise", error |-> "ConfigurationError", value |-> 0]

DefaultSplineOrder == 3     \* a cubic spline

\* the interpolation scheme and spline order FFTConvV1.__init__ takes from the
\* `interpolation` argument
ParseInterpolation(interpolation) ==
    LET colon  == FirstColon(interpolation)
        scheme == IF colon = 0 THEN interpolation
                  ELSE SubSeq(interpolation, 1, colon - 1)
        order  == SubSeq(interpolation, colon + 1, Len(interpolation))
        Invalid == [status |-> "raise", error |-> "ConfigurationError",
                    interpolation |-> "", spline_order |-> 0]
    IN  IF scheme = Linear /\ colon = 0
        THEN [status |-> "return", error |-> "",
              interpolation |-> "linear", spline_order |-> DefaultSplineOrder]
        ELSE IF scheme = Spline /\ colon = 0
        THEN [status |-> "return", error |-> "",
              interpolation |-> "spline", spline_order |-> DefaultSplineOrder]
        ELSE IF scheme = Spline
        THEN LET k == ParseOrder(order)
             IN  IF k.status = "raise" THEN Invalid
                 ELSE [status |-> "return", error |-> "",
                       interpolation |-> "spline", spline_order |-> k.value]
        ELSE Invalid

\* the classes a convolution is constructed from in the tests
ConvClasses == {"FFTConvV1", "FFTConvV1NoSampling"}

\* the grid resolutions n the tests construct with
GridPoints == {Num(100), Num(300)}

\* FFTConvV1.__init__(func, kernel, n, interpolation): the instance or the error
FFTConvV1Init(cls, n, interpolation) ==
    LET parsed == ParseInterpolation(interpolation)
    IN  IF parsed.status = "raise"
        THEN [status |-> "raise", error |-> parsed.error, obj |-> NoConv]
        ELSE [status |-> "return", error |-> "",
              obj |-> [cls |-> cls, n |-> n.v,
                       interpolation |-> parsed.interpolation,
                       spline_order |-> parsed.spline_order]]

\* the Space obs the convolution is defined over, and the points inside it
Space == [lower |-> 0, upper |-> MaxX]
Points(limits) == limits.lower..limits.upper

\* every sample of n points inside the limits
Samples(n, limits) == [1..n -> Points(limits)]

\* FFTConvV1._sample: the sampler of the convolution itself
FFTConvV1_sample(n, limits) ==
    {[status |-> "return", error |-> "", value |-> points] :
        points \in Samples(n, limits)}

\* FFTConvV1NoSampling._sample of the tests
FFTConvV1NoSampling_sample(n, limits) ==
    {[status |-> "raise", error |-> "SpecificFunctionNotImplementedError",
      value |-> <<>>]}

\* the _sample of the model's class
_sample(model, n, limits) ==
    IF model.cls = "FFTConvV1NoSampling"
    THEN FFTConvV1NoSampling_sample(n, limits)
    ELSE FFTConvV1_sample(n, limits)

\* the generic sampler of the base class (accept-reject against the pdf)
fallback_sample(n, limits) ==
    {[status |-> "return", error |-> "", value |-> points] :
        points \in Samples(n, limits)}

\* sample(n) without the fallback: what _sample raises reaches the caller
SamplePropagating(model, n) ==
    {[status |-> own.status, error |-> own.error, value |-> own.value,
      path |-> "_sample"] : own \in _sample(model, n, Space)}

\* sample(n) as the caller sees it: every outcome, with the sampler that gave it
conv_sample(model, n) ==
    UNION {IF own.status = "raise" /\ own.error = "SpecificFunctionNotImplementedError"
           THEN {[status |-> fb.status, error |-> fb.error, value |-> fb.value,
                  path |-> "fallback"] : fb \in fallback_sample(n, Space)}
           ELSE {[status |-> own.status, error |-> own.error, value |-> own.value,
                  path |-> "_sample"]}
           : own \in _sample(model, n, Space)}

---------------------------------------------------------------------------
(* Operations on an FFTConvV1 *)

InitFFTConv ==
    /\ NoParameters
    /\ result = NoCall
    /\ wrap = NoWrap
    /\ conv = NoConv

\* conv = cls(func=func, kernel=gauss, n=n, interpolation=interpolation)
NewFFTConv ==
    \E cls \in ConvClasses, n \in GridPoints, interpolation \in Interpolations :
        LET made == FFTConvV1Init(cls, n, interpolation)
        IN  /\ conv' = IF made.status = "raise" THEN conv ELSE made.obj
            /\ result' = [op |-> "FFTConvV1", target |-> 0, status |-> made.status,
                          error |-> made.error,
                          value |-> [interpolation |-> interpolation, made |-> made.obj]]
            /\ UNCHANGED <<store, collection, wrap>>

\* conv.sample(n)
Sample ==
    /\ conv # NoConv
    /\ \E n \in 1..MaxN :
         \E got \in conv_sample(conv, n) :
            /\ result' = [op |-> "sample", target |-> 0, status |-> got.status,
                          error |-> got.error,
                          value |-> [n |-> n, points |-> got.value, path |-> got.path]]
            /\ UNCHANGED <<store, collection, wrap, conv>>

NextFFTConv ==
    \/ NewFFTConv
    \/ Sample

SpecFFTConv == InitFFTConv /\ [][NextFFTConv]_vars

---------------------------------------------------------------------------
(* Claims about parameters, checked under SpecParameter *)

\* the parameter the last call was made on
Target == store[result.target]

Range(seq) == {seq[k] : k \in 1..Len(seq)}

\* C1 (as amended): reading `floating` of a parameter whose flag is true while
\* its storage is not trainable raises, with a RuntimeError, and returns no
\* value; every other read returns the stored flag.
C1_FloatingReadRaisesRuntimeError ==
    result.op = "floating" =>
        IF Target.floating /\ ~Target.trainable
        THEN result.status = "raise" /\ result.error = "RuntimeError"
        ELSE result.status = "return" /\ result.value = Target.floating

\* C1 (as claimed): the failing read raises a ConsistencyError.
C1_FloatingReadRaisesConsistencyError ==
    result.op = "floating" =>
        IF Target.floating /\ ~Target.trainable
        THEN result.status = "raise" /\ result.error = "ConsistencyError"
        ELSE result.status = "return" /\ result.value = Target.floating

\* C1 witness: a read of `floating` on a floating, non-trainable parameter raised.
C1_Witness ==
    /\ result.op = "floating"
    /\ Target.floating /\ ~Target.trainable
    /\ result.status = "raise"

\* C2 (as claimed): with no step size set, step_size returns the default when
\* both limits are finite and a strictly smaller value when the lower limit is
\* -infinity or the upper limit is +infinity; an explicit step size is returned
\* as it was set.
C2_SmallerStepNearOpenBounds ==
    result.op = "step_size" =>
        /\ result.status = "return"
        /\ IF ~Target.step_size.isNone
           THEN result.value = Target.step_size.v
           ELSE IF Target.lower_limit = -Infty \/ Target.upper_limit = Infty
                THEN result.value < DefaultStepSize
                ELSE result.value = DefaultStepSize

\* C3 (as claimed): the `parameters` mapping of a ComposedParameter holds
\* exactly the registered independent parameters the expression has a gradient
\* path to.
C3_ParametersAreTheDependents ==
    result.op = "ComposedParameter" =>
        /\ result.status = "return"
        /\ result.value.parameters =
               {k \in Range(collection) : k \in result.value.deps}

\* C15: an assignment of a non-boolean to `floating` raises TypeError and
\* leaves the stored flag as it was; an assignment of a boolean stores it, so the
\* stored flag is always a boolean, the last one assigned (by a constructor
\* too: Parameter.__init__ has true assigned before it assigns its argument);
\* true assigned over storage that is not trainable is accepted by the setter,
\* and the next read of `floating` raises.
C15_FloatingIsTheLastBooleanAssigned ==
    [][LET assigned == result'.value
           at       == result'.target
       IN  /\ result'.op = "floating=" =>
                 /\ store'[at].floating \in BOOLEAN
                 /\ IF assigned.type = "bool"
                    THEN /\ result'.status = "return"
                         /\ store' = [store EXCEPT ![at].floating = assigned.val]
                    ELSE /\ result'.status = "raise"
                         /\ result'.error = "TypeError"
                         /\ store' = store
                 /\ (assigned = PyBool(TRUE) /\ ~store[at].trainable) =>
                        /\ result'.status = "return"
                        /\ floating_get(store'[at]).status = "raise"
           /\ result'.op = "Parameter" =>
                 /\ at = Len(store) + 1
                 /\ store'[at].floating \in BOOLEAN
                 /\ IF assigned.type = "bool"
                    THEN /\ result'.status = "return"
                         /\ store'[at].floating = assigned.val
                    ELSE /\ result'.status = "raise"
                         /\ result'.error = "TypeError"
                         /\ store'[at].floating = TRUE
           /\ result'.op = "BaseParameter" =>
                 IF assigned.type = "bool"
                 THEN /\ result'.status = "return"
                      /\ at = Len(store) + 1
                      /\ store'[at].floating = assigned.val
                 ELSE /\ result'.status = "raise"
                      /\ result'.error = "TypeError"
                      /\ store' = store
    ]_vars

\* C15 witness: a non-boolean was assigned to a flag that is true, and refused.
C15_Witness ==
    /\ result.op = "floating="
    /\ result.value.type # "bool"
    /\ result.status = "raise"
    /\ Target.floating
    /\ ~Target.trainable

---------------------------------------------------------------------------
(* Claims about WrapDistribution, checked under SpecWrap *)

NonFinite(limits) ==
    \E k \in 1..Len(limits) : ~IsFinite(limits[k].lower) \/ ~IsFinite(limits[k].upper)

\* C4: analytic integration over limits with a non-finite lower or upper bound
\* raises and returns no value; over all-finite limits it returns
\* CDF(upper) - CDF(lower) of the distribution of the current parameter values.
C4_IntegrateNeedsFiniteLimits ==
    result.op = "integrate" =>
        LET limits == result.value.limits
        IN  IF NonFinite(limits)
            THEN result.status = "raise" /\ result.value.integral = <<>>
            ELSE /\ result.status = "return"
                 /\ Len(result.value.integral) = Len(limits)
                 /\ \A k \in 1..Len(limits) :
                        result.value.integral[k] =
                            cdf(wrap.values, limits[k].upper)
                            - cdf(wrap.values, limits[k].lower)

\* C4 witness: an integration over limits with an infinite bound raised.
C4_Witness ==
    /\ result.op = "integrate"
    /\ NonFinite(result.value.limits)
    /\ result.status = "raise"

\* C5 (as claimed): analytic sampling of n points returns n rows of as many
\* columns as the limits have axes, each entry the quantile of a probability in
\* [CDF(lower), CDF(upper)] and so inside [lower, upper].
C5_SampleShapeAndRange ==
    result.op = "sample" =>
        LET limits == result.value.limits
            sample == result.value.sample
            probs == result.value.probs
        IN  /\ result.status = "return"
            /\ Len(sample) = result.value.n
            /\ \A i \in 1..Len(sample) :
                   /\ Len(sample[i]) = Len(limits)
                   /\ \A j \in 1..Len(limits) :
                          /\ cdf(result.dist, limits[j].lower) <= probs[i][j]
                          /\ probs[i][j] <= cdf(result.dist, limits[j].upper)
                          /\ sample[i][j] = quantile(result.dist, probs[i][j])
                          /\ limits[j].lower <= sample[i][j]
                          /\ sample[i][j] <= limits[j].upper

FactorySupplied(w) == callable(w.dist_params) \/ callable(w.dist_kwargs)

Factories(w) ==
    (IF callable(w.dist_params) THEN 1 ELSE 0) + (IF callable(w.dist_kwargs) THEN 1 ELSE 0)

\* C6: on a pdf whose distribution parameters or keyword arguments are supplied
\* as a factory, every access to `distribution` invokes each factory once more,
\* and the distribution a call uses is built from the parameter values current
\* at that call.
C6_FactoryReinvokedOnEveryAccess ==
    [][(FactorySupplied(wrap) /\ wrap'.accesses # wrap.accesses) =>
          /\ wrap'.invocations - wrap.invocations =
                 (wrap'.accesses - wrap.accesses) * Factories(wrap)
          /\ wrap'.built = wrap.values
          /\ result'.dist = wrap.values]_vars

\* C6 witness: a factory-supplied pdf was accessed, a parameter changed, and
\* the next call used a distribution of the changed values.
C6_Witness ==
    /\ FactorySupplied(wrap)
    /\ wrap.accesses >= 2
    /\ wrap.previous # wrap.built
    /\ result.op \in {"pdf", "sample"}
    /\ result.dist = wrap.values

---------------------------------------------------------------------------
(* Claims about GaussianKDE1DimExactV1, checked under SpecKDE *)

Constructed == result.op = "GaussianKDE1DimExactV1"

\* the data is a dataset that carries weights and weights are given as well
WeightsGivenTwice ==
    /\ result.value.data.zfit
    /\ ~result.value.data.weights.isNone
    /\ ~result.value.weights.isNone

Last(seq) == seq[Len(seq)]

\* C7 (as amended): with explicit weights and a dataset that carries weights,
\* construction raises OverdefinedError before it computes a bandwidth or builds
\* an estimate; with a weighted dataset and no explicit weights, every estimate
\* built uses the dataset's weights.
C7_WeightsGivenTwiceRaisesOverdefinedError ==
    Constructed =>
        /\ WeightsGivenTwice =>
               /\ result.status = "raise" /\ result.error = "OverdefinedError"
               /\ result.value.events = <<>>
               /\ result.value.built = <<>>
        /\ (/\ result.value.data.zfit
            /\ ~result.value.data.weights.isNone
            /\ result.value.weights.isNone) =>
               \A k \in 1..Len(result.value.built) :
                   /\ result.value.built[k].data_weights = result.value.data.weights
                   /\ result.value.built[k].probs
                          = Probs(result.value.data.values, result.value.data.weights)

\* C7 (as claimed): the error is a ConfigurationError.
C7_WeightsGivenTwiceRaisesConfigurationError ==
    (Constructed /\ WeightsGivenTwice) =>
        /\ result.status = "raise" /\ result.error = "ConfigurationError"
        /\ result.value.events = <<>>
        /\ result.value.built = <<>>

\* C7 witness: a construction with weights given twice raised.
C7_Witness ==
    /\ Constructed
    /\ WeightsGivenTwice
    /\ result.status = "raise"

\* the bandwidth is a string that names none of the methods
UnknownMethod ==
    /\ result.value.bandwidth.type = "str"
    /\ result.value.bandwidth.s \notin {"silverman", "scott", "adaptiveV1"}

\* C8 (as amended): a bandwidth string other than silverman, scott and
\* adaptiveV1 makes construction raise, with a ValueError (an OverdefinedError
\* where weights are given twice), and yields no estimate; a bandwidth of None
\* is treated as silverman.
C8_UnknownBandwidthRaisesValueError ==
    Constructed =>
        /\ UnknownMethod =>
               /\ result.status = "raise"
               /\ result.error =
                      IF WeightsGivenTwice THEN "OverdefinedError" ELSE "ValueError"
               /\ result.value.built = <<>>
        /\ (result.value.bandwidth.type = "NoneType" /\ ~WeightsGivenTwice) =>
               /\ result.status = "return"
               /\ Len(result.value.built) = 1
               /\ Last(result.value.built).method = "silverman"
               /\ Last(result.value.built).bandwidth.rule = "silverman"

\* C8 (as claimed): the error is a ConsistencyError.
C8_UnknownBandwidthRaisesConsistencyError ==
    (Constructed /\ UnknownMethod /\ ~WeightsGivenTwice) =>
        /\ result.status = "raise" /\ result.error = "ConsistencyError"
        /\ result.value.built = <<>>

\* C8 witness: a construction with a bandwidth string naming no method raised.
C8_Witness ==
    /\ Constructed
    /\ UnknownMethod /\ ~WeightsGivenTwice
    /\ result.status = "raise"

\* the construction built one provisional estimate, by Silverman's rule, of the
\* same data and weights, and derived a bandwidth per point from it
OneNestedLevel ==
    /\ result.status = "return"
    /\ Len(result.value.built) = 2
    /\ LET inner == result.value.built[1]
           outer == result.value.built[2]
       IN  /\ inner.depth = 1 /\ outer.depth = 0
           /\ inner.method = "silverman"
           /\ inner.data = outer.data
           /\ inner.data_weights = outer.data_weights
           /\ outer.bandwidth.rule = "adaptiveV1"
           /\ outer.bandwidth.length = Len(outer.data)
           /\ outer.bandwidth.base = inner.bandwidth.rule
           /\ outer.bandwidth.func = inner.name

\* C9 (as amended): construction with the bandwidth adaptiveV1, and weights not
\* given twice, terminates: it builds exactly one nested estimate, by
\* Silverman's rule and of the same data and weights, which builds no further
\* one, and ends with a bandwidth per point derived from the nested estimate.
C9_AdaptiveV1BuildsOneNestedEstimate ==
    (/\ Constructed
     /\ result.value.bandwidth = BandwidthStr("adaptiveV1")
     /\ ~WeightsGivenTwice) => OneNestedLevel

\* C9 (as claimed): the policy is named adaptive.
C9_AdaptiveBuildsOneNestedEstimate ==
    (/\ Constructed
     /\ result.value.bandwidth = BandwidthStr("adaptive")
     /\ ~WeightsGivenTwice) => OneNestedLevel

\* C9 witness: a construction with adaptiveV1 returned an estimate.
C9_Witness ==
    /\ Constructed
    /\ result.value.bandwidth = BandwidthStr("adaptiveV1")
    /\ result.status = "return"
    /\ Len(Last(result.value.built).data) > 1

RECURSIVE SumNum(_)
SumNum(probs) == IF probs = <<>> THEN 0 ELSE Head(probs).num + SumNum(Tail(probs))

\* C10: in every estimate built (for weights with one entry per data point and
\* a positive sum), each component's prior is its weight over the sum of the
\* weights, or 1/N without weights; there is one prior per data point and the
\* priors sum to 1.
C10_PriorsAreNormalizedWeights ==
    Constructed =>
        \A e \in Range(result.value.built) :
            /\ Len(e.probs) = Len(e.data)
            /\ \A k \in 1..Len(e.probs) :
                   /\ e.probs[k].den > 0
                   /\ e.probs[k].den = e.probs[1].den
                   /\ IF e.data_weights.isNone
                      THEN e.probs[k].num = 1 /\ e.probs[k].den = Len(e.data)
                      ELSE /\ e.probs[k].num = e.data_weights.w[k]
                           /\ e.probs[k].den = Sum(e.data_weights.w)
            /\ SumNum(e.probs) = e.probs[1].den

\* C10 witness: an estimate of several points with unequal weights was built.
C10_Witness ==
    /\ Constructed
    /\ result.status = "return"
    /\ \E e \in Range(result.value.built) :
           /\ ~e.data_weights.isNone
           /\ Len(e.probs) > 1
           /\ e.probs[1].num # e.probs[2].num

---------------------------------------------------------------------------
(* Claims about FFTConvV1, checked under SpecFFTConv *)

\* the points of the last sample are n points of the model's Space
InSpace ==
    /\ Len(result.value.points) = result.value.n
    /\ \A k \in 1..Len(result.value.points) :
           /\ Space.lower <= result.value.points[k]
           /\ result.value.points[k] <= Space.upper

\* C11: sample(n) of a model whose own _sample raises
\* SpecificFunctionNotImplementedError raises nothing: the fallback sampler runs
\* and the call returns n points inside the model's Space, as the call does for
\* a model whose own _sample succeeds.
C11_NotImplementedSampleFallsBack ==
    result.op = "sample" =>
        /\ result.status = "return"
        /\ InSpace
        /\ conv.cls = "FFTConvV1NoSampling" => result.value.path = "fallback"
        /\ conv.cls = "FFTConvV1" => result.value.path = "_sample"

C11_Witness ==
    /\ result.op = "sample"
    /\ conv.cls = "FFTConvV1NoSampling"
    /\ result.status = "return"
    /\ result.value.n = MaxN

\* the interpolation a model was last constructed with
Given == result.value.interpolation

\* C12: `spline:<k>` with a positive integer k constructs a model whose spline
\* order is k (5 for `spline:5`, 3 for `spline:3`), `spline` alone one with the
\* default order, `linear` one with linear interpolation, and `spline:<order>`
\* with a malformed order raises ConfigurationError and yields no model.
C12_InterpolationIsParsed ==
    result.op = "FFTConvV1" =>
        /\ \A k \in 1..MaxOrder :
               Given = SplineWith(Str(k)) =>
                   /\ result.status = "return"
                   /\ conv = result.value.made
                   /\ conv.interpolation = "spline"
                   /\ conv.spline_order = k
        /\ Given = SplineWith(<<"5">>) => conv.spline_order = 5
        /\ Given = SplineWith(<<"3">>) => conv.spline_order = 3
        /\ Given = Spline =>
               /\ result.status = "return"
               /\ conv = result.value.made
               /\ conv.interpolation = "spline"
               /\ conv.spline_order = DefaultSplineOrder
        /\ Given = Linear =>
               /\ result.status = "return"
               /\ conv = result.value.made
               /\ conv.interpolation = "linear"
        /\ Given \in {SplineWith(order) : order \in MalformedOrders} =>
               /\ result.status = "raise"
               /\ result.error = "ConfigurationError"
               /\ result.value.made = NoConv

C12_Witness ==
    /\ result.op = "FFTConvV1"
    /\ Given = SplineWith(<<"1", "2">>)
    /\ conv.spline_order = 12

---------------------------------------------------------------------------
(* Claims about randomise and convert_to_parameter, checked under SpecConversion *)

\* C13: randomise returns the value it drew and has assigned it: after the call
\* the parameter's value is the returned value and lies between the minval and
\* maxval used, an omitted one being the parameter's own limit.
C13_RandomiseAssignsReturnedValue ==
    result.op = "randomise" =>
        /\ result.status = "return"
        /\ Target.value = result.value
        /\ \E minval \in MinVals, maxval \in MaxVals :
               LET lo == IF minval.isNone THEN Target.lower_limit ELSE minval.v
                   hi == IF maxval.isNone THEN Target.upper_limit ELSE maxval.v
               IN  lo <= Target.value /\ Target.value <= hi

\* C14: convert_to_parameter returns a parameter it is given, and changes and
\* creates nothing, so that converting what it returned returns the same once
\* more; for a float it returns a new independent Parameter, registered with
\* the independent parameters, whose floating flag is false; for a complex it
\* raises ValueError and creates no parameter.
C14_ConvertToParameter ==
    [][result'.op = "convert_to_parameter" =>
        LET value == result'.value
            at    == result'.target
            again == convert_to_parameter(PyVariable(at), store', collection')
        IN  /\ value.type = "Variable" =>
                /\ result'.status = "return"
                /\ at = value.at
                /\ store' = store
                /\ collection' = collection
            /\ value.type = "float" =>
                /\ result'.status = "return"
                /\ at = Len(store) + 1
                /\ store' = Append(store, store'[at])
                /\ collection' = Append(collection, at)
                /\ store'[at].kind = "Parameter"
                /\ store'[at].independent
                /\ store'[at].value = value.v
                /\ store'[at].floating = FALSE
                /\ floating_get(store'[at]).value = FALSE
            /\ value.type = "complex" =>
                /\ result'.status = "raise"
                /\ result'.error = "ValueError"
                /\ store' = store
                /\ collection' = collection
            /\ result'.status = "return" =>
                /\ again.status = "return"
                /\ again.at = at
                /\ again.store = store'
                /\ again.collection = collection'
    ]_vars

C14_Witness ==
    /\ result.op = "convert_to_parameter"
    /\ result.value.type = "float"
    /\ result.status = "return"
    /\ Len(store) = MaxParams
    /\ store[1].floating

====
